---------------------------- MODULE Spec2Model ----------------------------
(***************************************************************************)
(* A model of flit's build orchestrator (flit/build.py) and of the helpers *)
(* of flit/common.py: check_version, normalize_file_permissions, Metadata, *)
(* write_entry_points and get_docstring_and_version_via_ast.               *)
(*                                                                         *)
(* The orchestrator is a sequential program; pc is the line of main (or of *)
(* unpacked_tarball) that runs next.  The helpers are pure functions: each *)
(* has a specification whose Init draws the input and whose action applies *)
(* the function.                                                           *)
(***************************************************************************)
EXTENDS Integers, Sequences, FiniteSets, TLC

VARIABLES
    \* ---- flit/build.py: main and unpacked_tarball
    pc,          \* the statement of main that runs next, or "returned"/"raised"
    ini_file,    \* main's argument ini_file, a path (a sequence of components)
    formats,     \* main's argument formats, as passed by the caller
    fmts,        \* main's local `formats` after lines 29-32
    sdist_info,  \* main's local sdist_info
    wheel_info,  \* main's local wheel_info
    archive,     \* the top-level entries of the sdist archive sb.build() wrote
    tmpdir,      \* the directory TemporaryDirectory() yielded (line 21)
    tmpdirs,     \* the temporary directories that exist on the filesystem
    created,     \* how many temporary directories were ever created
    unpacked,    \* what unpacked_tarball yields (line 25)
    calls,       \* the builder calls made so far, in order
    exc,         \* the exception in flight or raised by main
    result,      \* what main returned
    \* ---- flit/common.py: the helper under study and how far its call got
    stage,       \* "call" before the helper is applied, then "done" (or, for
                 \* Metadata, "constructed", "raised", "written")
    st_mode,     \* normalize_file_permissions: the argument
    new_mode,    \* normalize_file_permissions: the value returned
    outcome,     \* the value the helper returned or the exception it raised
    fp,          \* the lines the helper wrote to the file object fp
    version,     \* check_version: the argument
    warnings,    \* check_version: the records passed to log.warning
    data,        \* Metadata.__init__: the argument, a dict in insertion order
    md,          \* the Metadata instance's own attributes (its __dict__)
    d,           \* write_entry_points: the two-level dict, in insertion order
    body         \* the top-level statements of the entry file (ast.parse's node.body)

buildVars == <<pc, ini_file, formats, fmts, sdist_info, wheel_info, archive,
               tmpdir, tmpdirs, created, unpacked, calls, exc, result>>

permVars == <<st_mode, new_mode>>

versionVars == <<version, warnings>>

metaVars == <<data, md>>

epVars == <<d>>

astVars == <<body>>

commonVars == <<stage, outcome, fp>>

\* What main leaves alone, and what each helper leaves alone.
helperVars == <<commonVars, permVars, versionVars, metaVars, epVars, astVars>>

notPerm == <<buildVars, versionVars, metaVars, epVars, astVars>>

notVersion == <<buildVars, permVars, metaVars, epVars, astVars>>

notMeta == <<buildVars, permVars, versionVars, epVars, astVars>>

notEp == <<buildVars, permVars, versionVars, metaVars, astVars>>

notAst == <<buildVars, permVars, versionVars, metaVars, epVars>>

None == [kind |-> "None"]

(***************************************************************************)
(* Paths (pathlib.Path): a sequence of components.                         *)
(***************************************************************************)
PathName(p) == p[Len(p)]

PathParent(p) == SubSeq(p, 1, Len(p) - 1)

PathJoin(p, name) == Append(p, name)

(***************************************************************************)
(* flit/build.py                                                           *)
(***************************************************************************)
ALL_FORMATS == {"wheel", "sdist"}

\* The format names a caller may pass: the two known ones and an unknown one.
FormatNames == ALL_FORMATS \cup {"egg"}

\* The values of the formats argument: None (the default) or a set of names.
FormatArgs == {None} \cup {[kind |-> "set", names |-> s] : s \in SUBSET FormatNames}

IniFiles == {<<"proj", "flit.ini">>, <<"proj", "pyproject.toml">>}

\* The top-level entries an sdist archive may hold: the <name>-<version>
\* directory, and a stray entry a defective build would add.
TopEntries == {"pkg-1.0", "stray"}

\* Python's truth value of the formats argument: None and the empty set are false.
Truthy(f) == f.kind = "set" /\ f.names # {}

\* A variant of line 31 that accepts a request as soon as it names a known format.
IsSubsetOfAll_AnyKnown(names) == names \cap ALL_FORMATS # {}

\* formats.issubset(ALL_FORMATS), line 31
IsSubsetOfAll(names) == names \subseteq ALL_FORMATS

\* A variant of lines 29-30 that always builds both formats.
EffectiveFormats_AlwaysAll(f) == ALL_FORMATS

\* Lines 29-30 and the fall-through of line 31: the formats main goes on with.
EffectiveFormats(f) == IF ~Truthy(f) THEN ALL_FORMATS ELSE f.names

\* A variant of line 46 that keeps the working-tree descriptor.
TmpIniFile_WorkingTree(dir, ini) == ini

\* Line 46: tmp_ini_file = Path(tmpdir, ini_file.name)
TmpIniFile(dir, ini) == PathJoin(dir, PathName(ini))

\* A variant without the with block: the directory is removed on normal exit only.
ExitTemporaryDirectory_KeptOnError(dirs, dir, e) == IF e = None THEN dirs \ {dir} ELSE dirs

\* TemporaryDirectory.__exit__ at the end of the with block of line 21: the
\* directory is removed however the block is left (e is the exception in flight).
ExitTemporaryDirectory(dirs, dir, e) == dirs \ {dir}

\* Line 39: SimpleNamespace(builder=sb, file=sdist_file)
Info(builder, file) == [kind |-> "info", builder |-> builder, file |-> file]

\* Line 43: dist_dir = ini_file.parent / 'dist'
DistDir(ini) == PathJoin(PathParent(ini), "dist")

\* What make_wheel_in and wheel_main return (flit/wheel.py is not among these
\* sources): the record of the wheel built, its builder and its file.
WheelInfo(ini) == Info("WheelBuilder", PathJoin(DistDir(ini), "pkg-1.0-py3-none-any.whl"))

\* The top-level entries of the archive SdistBuilder.build writes
\* (flit/sdist.py is not among these sources): one <name>-<version>
\* directory, or what a defective build leaves.
SdistArchives == SUBSET TopEntries

Raise(e) == [kind |-> "exception", type |-> e.type, detail |-> e.detail]

InitBuild ==
    /\ pc = "l29"
    /\ ini_file \in IniFiles
    /\ formats \in FormatArgs
    /\ fmts = {}
    /\ sdist_info = None
    /\ wheel_info = None
    /\ archive = {}
    /\ tmpdir = <<>>
    /\ tmpdirs = {}
    /\ created = 0
    /\ unpacked = <<>>
    /\ calls = <<>>
    /\ exc = None
    /\ result = None

\* Lines 29-34.
Validate ==
    /\ pc = "l29"
    /\ UNCHANGED helperVars
    /\ IF Truthy(formats) /\ ~IsSubsetOfAll(formats.names)
         THEN /\ exc' = Raise([type |-> "ValueError",
                               detail |-> formats.names \ ALL_FORMATS])
              /\ pc' = "raised"
              /\ fmts' = fmts
         ELSE /\ fmts' = EffectiveFormats(formats)
              /\ pc' = "l36"
              /\ exc' = exc
    /\ UNCHANGED <<ini_file, formats, sdist_info, wheel_info, archive, tmpdir,
                   tmpdirs, created, unpacked, calls, result>>

\* Lines 36-39 (and the test of line 42): SdistBuilder(ini_file).build().
\* The builder is not part of these sources: it either raises or writes an
\* archive with some top-level entries and returns its path.
SdistBuild ==
    /\ pc = "l36"
    /\ UNCHANGED helperVars
    /\ "sdist" \in fmts
    /\ \/ /\ calls' = Append(calls, [op |-> "SdistBuilder.build", ini |-> ini_file,
                                      ok |-> FALSE])
          /\ exc' = Raise([type |-> "BuildError", detail |-> {}])
          /\ pc' = "raised"
          /\ UNCHANGED <<sdist_info, archive>>
       \/ \E entries \in SdistArchives :
          /\ calls' = Append(calls, [op |-> "SdistBuilder.build", ini |-> ini_file,
                                      ok |-> TRUE])
          /\ archive' = entries
          /\ sdist_info' = Info("SdistBuilder",
                                PathJoin(DistDir(ini_file), "pkg-1.0.tar.gz"))
          /\ pc' = IF "wheel" \in fmts THEN "l44" ELSE "l51"
          /\ exc' = exc
    /\ UNCHANGED <<ini_file, formats, fmts, wheel_info, tmpdir, tmpdirs, created,
                   unpacked, result>>

\* Lines 20-21: tarfile.open, then TemporaryDirectory() makes a fresh
\* directory; either may fail, and then no directory was made.
EnterTemporaryDirectory ==
    /\ pc = "l44"
    /\ UNCHANGED helperVars
    /\ \/ /\ tmpdir' = <<"tmp", created + 1>>
          /\ tmpdirs' = tmpdirs \cup {tmpdir'}
          /\ created' = created + 1
          /\ pc' = "l22"
          /\ exc' = exc
       \/ /\ exc' = Raise([type |-> "OSError", detail |-> {}])
          /\ pc' = "raised"
          /\ UNCHANGED <<tmpdir, tmpdirs, created>>
    /\ UNCHANGED <<ini_file, formats, fmts, sdist_info, wheel_info, archive,
                   unpacked, calls, result>>

\* Line 22: tf.extractall(tmpdir); it may fail (a full disk, a bad archive).
ExtractAll ==
    /\ pc = "l22"
    /\ UNCHANGED helperVars
    /\ \/ /\ pc' = "l23"
          /\ exc' = exc
       \/ /\ exc' = Raise([type |-> "OSError", detail |-> {}])
          /\ pc' = "exit_tmp"
    /\ UNCHANGED <<ini_file, formats, fmts, sdist_info, wheel_info, archive,
                   tmpdir, tmpdirs, created, unpacked, calls, result>>

\* Lines 23-25: files = os.listdir(tmpdir); assert len(files) == 1; yield.
ListAndYield ==
    /\ pc = "l23"
    /\ UNCHANGED helperVars
    /\ IF Cardinality(archive) = 1
         THEN /\ unpacked' = PathJoin(tmpdir, CHOOSE f \in archive : TRUE)
              /\ pc' = "l46"
              /\ exc' = exc
         ELSE /\ exc' = Raise([type |-> "AssertionError", detail |-> archive])
              /\ pc' = "exit_tmp"
              /\ unpacked' = unpacked
    /\ UNCHANGED <<ini_file, formats, fmts, sdist_info, wheel_info, archive,
                   tmpdir, tmpdirs, created, calls, result>>

\* Lines 43, 45-47: the body of the with block.  make_wheel_in is not part of
\* these sources: it either raises or returns the wheel's info record.
MakeWheelIn ==
    /\ pc = "l46"
    /\ UNCHANGED helperVars
    /\ LET tmp_ini_file == TmpIniFile(unpacked, ini_file)
       IN \/ /\ calls' = Append(calls, [op |-> "make_wheel_in", ini |-> tmp_ini_file,
                                         ok |-> TRUE])
             /\ wheel_info' = WheelInfo(ini_file)
             /\ exc' = exc
          \/ /\ calls' = Append(calls, [op |-> "make_wheel_in", ini |-> tmp_ini_file,
                                         ok |-> FALSE])
             /\ exc' = Raise([type |-> "BuildError", detail |-> {}])
             /\ wheel_info' = wheel_info
    /\ pc' = "exit_tmp"
    /\ UNCHANGED <<ini_file, formats, fmts, sdist_info, archive, tmpdir, tmpdirs,
                   created, unpacked, result>>

\* The end of the with block of line 21, reached normally (after line 47) or
\* by an exception raised at line 22, at line 24, or thrown in at the yield.
ExitTmp ==
    /\ pc = "exit_tmp"
    /\ UNCHANGED helperVars
    /\ tmpdirs' = ExitTemporaryDirectory(tmpdirs, tmpdir, exc)
    /\ pc' = IF exc = None THEN "l51" ELSE "raised"
    /\ UNCHANGED <<ini_file, formats, fmts, sdist_info, wheel_info, archive,
                   tmpdir, created, unpacked, calls, exc, result>>

\* Lines 48-49: the elif branch.  wheel_main is not part of these sources.
WheelMain ==
    /\ pc = "l36"
    /\ UNCHANGED helperVars
    /\ "sdist" \notin fmts
    /\ IF "wheel" \in fmts
         THEN \/ /\ calls' = Append(calls, [op |-> "wheel_main", ini |-> ini_file,
                                             ok |-> TRUE])
                 /\ wheel_info' = WheelInfo(ini_file)
                 /\ pc' = "l51"
                 /\ exc' = exc
              \/ /\ calls' = Append(calls, [op |-> "wheel_main", ini |-> ini_file,
                                             ok |-> FALSE])
                 /\ exc' = Raise([type |-> "BuildError", detail |-> {}])
                 /\ pc' = "raised"
                 /\ wheel_info' = wheel_info
         ELSE /\ pc' = "l51"
              /\ UNCHANGED <<calls, wheel_info, exc>>
    /\ UNCHANGED <<ini_file, formats, fmts, sdist_info, archive, tmpdir, tmpdirs,
                   created, unpacked, result>>

\* Line 51.
Return ==
    /\ pc = "l51"
    /\ UNCHANGED helperVars
    /\ result' = [kind |-> "namespace", wheel |-> wheel_info, sdist |-> sdist_info]
    /\ pc' = "returned"
    /\ UNCHANGED <<ini_file, formats, fmts, sdist_info, wheel_info, archive,
                   tmpdir, tmpdirs, created, unpacked, calls, exc>>

(***************************************************************************)
(* Claims about main.                                                      *)
(***************************************************************************)
\* What the caller asked for, read from the argument alone.
BothRequested == ~Truthy(formats) \/ formats.names = ALL_FORMATS

WheelOnlyRequested == Truthy(formats) /\ formats.names = {"wheel"}

\* C1: when both formats are requested (or none is given) the sdist build has
\* completed before the wheel build starts and the wheel is built from the
\* descriptor inside the unpacked sdist, never from the working-tree
\* descriptor; wheel_main runs only when wheel is requested without sdist.
C1_WheelFromUnpackedSdist ==
    /\ \A i \in 1..Len(calls) :
          /\ calls[i].op = "make_wheel_in" =>
                /\ BothRequested
                /\ i > 1
                /\ calls[i - 1].op = "SdistBuilder.build"
                /\ calls[i - 1].ok
                /\ calls[i].ini # ini_file
                /\ SubSeq(calls[i].ini, 1, Len(tmpdir)) = tmpdir
                /\ calls[i].ini[Len(tmpdir) + 1] \in archive
                /\ PathName(calls[i].ini) = PathName(ini_file)
          /\ calls[i].op = "wheel_main" =>
                /\ WheelOnlyRequested
                /\ calls[i].ini = ini_file
    /\ (pc = "l46" \/ (pc = "returned" /\ BothRequested)) =>
          /\ calls # <<>>
          /\ calls[1].op = "SdistBuilder.build"
          /\ calls[1].ok
    /\ (pc = "returned" /\ BothRequested) =>
          /\ Len(calls) = 2
          /\ calls[2].op = "make_wheel_in"

C1_Witness ==
    /\ pc = "returned"
    /\ formats = None
    /\ Len(calls) = 2
    /\ calls[2].op = "make_wheel_in"
    /\ calls[2].ok

\* C2: once main has returned or raised, the temporary unpacking directory no
\* longer exists, on every exit path; when the unpacked archive does not hold
\* exactly one top-level entry the wheel build is never started.
C2_TmpDirReleased ==
    /\ pc \in {"returned", "raised"} => tmpdirs = {}
    /\ (exc # None /\ exc.type = "AssertionError") =>
          \A i \in 1..Len(calls) : calls[i].op # "make_wheel_in"

C2_Witness ==
    /\ pc = "raised"
    /\ created = 1
    /\ exc.type = "AssertionError"
    /\ tmpdirs = {}

\* C3: a non-empty request holding an unknown format name makes main raise
\* ValueError naming the unknown formats before any builder runs and before
\* any temporary directory is made, also when valid names are requested too.
C3_UnknownFormatRejected ==
    (pc # "l29" /\ Truthy(formats) /\ ~(formats.names \subseteq {"wheel", "sdist"})) =>
        /\ pc = "raised"
        /\ exc.type = "ValueError"
        /\ exc.detail = formats.names \ {"wheel", "sdist"}
        /\ calls = <<>>
        /\ created = 0
        /\ tmpdirs = {}
        /\ sdist_info = None
        /\ wheel_info = None

C3_Witness ==
    /\ pc = "raised"
    /\ Truthy(formats)
    /\ formats.names = {"sdist", "egg"}
    /\ exc.type = "ValueError"

\* C4 as stated: on normal return the sdist (wheel) field is non-None exactly
\* when sdist (wheel) was requested, where only None counts as "both".
C4_Original ==
    pc = "returned" =>
        LET requested == IF formats = None THEN {"wheel", "sdist"} ELSE formats.names
        IN /\ (result.sdist # None) <=> ("sdist" \in requested)
           /\ (result.wheel # None) <=> ("wheel" \in requested)

\* C4 as amended: the same, where None and the empty set both count as "both".
C4_ResultMatchesRequest ==
    pc = "returned" =>
        LET requested == IF formats = None \/ formats.names = {}
                           THEN {"wheel", "sdist"} ELSE formats.names
        IN /\ (result.sdist # None) <=> ("sdist" \in requested)
           /\ (result.wheel # None) <=> ("wheel" \in requested)
           /\ \A i \in 1..Len(calls) :
                 /\ calls[i].op = "SdistBuilder.build" => "sdist" \in requested
                 /\ calls[i].op \in {"make_wheel_in", "wheel_main"} => "wheel" \in requested

C4_Witness ==
    /\ pc = "returned"
    /\ formats = [kind |-> "set", names |-> {}]
    /\ result.sdist # None
    /\ result.wheel # None

(***************************************************************************)
(* flit/common.py: normalize_file_permissions                              *)
(***************************************************************************)
\* st_mode values are drawn from 0 .. 2^ModeBits - 1: the nine permission
\* bits, setuid, setgid and sticky, and the four file-type bits above them.
ModeBits == 16

RECURSIVE Pow2(_)
Pow2(n) == IF n = 0 THEN 1 ELSE 2 * Pow2(n - 1)

\* Python's a & b on non-negative integers.
RECURSIVE BitAnd(_, _)
BitAnd(a, b) ==
    IF a = 0 \/ b = 0 THEN 0
    ELSE (a % 2) * (b % 2) + 2 * BitAnd(a \div 2, b \div 2)

\* Python's a | b on non-negative integers.
RECURSIVE BitOr(_, _)
BitOr(a, b) ==
    IF a = 0 THEN b
    ELSE IF b = 0 THEN a
    ELSE (IF a % 2 = 1 \/ b % 2 = 1 THEN 1 ELSE 0) + 2 * BitOr(a \div 2, b \div 2)

\* Python's a & ~m for non-negative a and m: ~m is -m-1, whose two's
\* complement has every bit set but those of m, so the bits of m are cleared.
BitAndNot(a, m) == a - BitAnd(a, m)

\* A variant of line 218 that tests any execute bit (0o111).
normalize_file_permissions_AnyExec(mode) ==
    LET base == BitAndNot(BitOr(mode, \o644), \o133)
    IN IF BitAnd(mode, \o111) # 0 THEN BitOr(base, \o111) ELSE base

\* Lines 209-220.
normalize_file_permissions(mode) ==
    LET base == BitAndNot(BitOr(mode, \o644), \o133)
    IN IF BitAnd(mode, \o100) # 0 THEN BitOr(base, \o111) ELSE base

InitPerm ==
    /\ stage = "call"
    /\ outcome = None
    /\ fp = <<>>
    /\ st_mode \in 0..(Pow2(ModeBits) - 1)
    /\ new_mode = 0

NormalizePermissions ==
    /\ stage = "call"
    /\ new_mode' = normalize_file_permissions(st_mode)
    /\ stage' = "done"
    /\ UNCHANGED <<st_mode, outcome, fp, notPerm>>

\* C5 as stated: for every raw st_mode, higher bits included, the value
\* returned is exactly 0o755 when the owner-execute bit is set, else 0o644.
C5_Original ==
    stage = "done" =>
        new_mode = IF BitAnd(st_mode, \o100) # 0 THEN \o755 ELSE \o644

\* C5 as amended: the nine permission bits of the value returned are exactly
\* 0o755 when the owner-execute bit of the input is set and exactly 0o644
\* otherwise (group- or other-execute alone never gives 0o755), and the bits
\* above the permission bits are those of the input.
C5_PermissionBitsNormalized ==
    stage = "done" =>
        /\ new_mode % \o1000 = IF (st_mode \div \o100) % 2 = 1 THEN \o755 ELSE \o644
        /\ new_mode \div \o1000 = st_mode \div \o1000

C5_Witness ==
    /\ stage = "done"
    /\ st_mode = \o100611
    /\ new_mode = \o100644

(***************************************************************************)
(* flit/common.py: pep440re, _is_canonical, check_version                  *)
(*                                                                         *)
(* A str is a sequence of one-character strings.  A regular expression is  *)
(* run as Python's re runs it up to what it accepts: each piece maps the   *)
(* set of positions a match may have reached to the set it may reach next. *)
(***************************************************************************)
MaxVersionLen == 3

Digits == {"0", "1", "2", "3", "4", "5", "6", "7", "8", "9"}

NonZeroDigits == Digits \ {"0"}

\* The characters version strings are drawn from.
VersionAlphabet == {"0", "1", ".", "-", "a", "!"}

Str(s) == [kind |-> "str", s |-> s]

IntValue(n) == [kind |-> "int", n |-> n]

\* One character of class C.
StepChar(w, P, C) == {p + 1 : p \in {q \in P : q <= Len(w) /\ w[q] \in C}}

\* An unescaped '.': any character but a newline.
StepAny(w, P) == {p + 1 : p \in {q \in P : q <= Len(w) /\ w[q] # "\n"}}

\* An escaped '\.': a literal dot.
StepDot(w, P) == StepChar(w, P, {"."})

\* A literal string.
RECURSIVE StepLit(_, _, _)
StepLit(w, P, lit) ==
    IF lit = <<>> THEN P ELSE StepLit(w, StepChar(w, P, {Head(lit)}), Tail(lit))

\* \d*
RECURSIVE DigitStar(_, _)
DigitStar(w, P) ==
    LET Q == P \cup StepChar(w, P, Digits)
    IN IF Q = P THEN P ELSE DigitStar(w, Q)

\* (0|[1-9]\d*)
Number(w, P) ==
    StepChar(w, P, {"0"}) \cup DigitStar(w, StepChar(w, P, NonZeroDigits))

\* The separator of the release segments: '.' as written (any character), or
\* '\.' (a dot).
Separator(w, P, escaped) == IF escaped THEN StepDot(w, P) ELSE StepAny(w, P)

\* (<separator>(0|[1-9]\d*))*
RECURSIVE SegmentStar(_, _, _)
SegmentStar(w, P, escaped) ==
    LET Q == P \cup Number(w, Separator(w, P, escaped))
    IN IF Q = P THEN P ELSE SegmentStar(w, Q, escaped)

\* '$' without re.MULTILINE: the end of the string, or just before a newline
\* that ends the string.
AtDollar(w, p) == p = Len(w) + 1 \/ (p = Len(w) /\ w[p] = "\n")

AtEnd(w, p) == p = Len(w) + 1

\* The pattern of lines 13-20 with the release separator left open: the
\* positions a match from the start of w may end at.
Pep440Ends(w, escaped) ==
    LET p0 == {1}
        p1 == p0 \cup StepChar(w, DigitStar(w, StepChar(w, p0, NonZeroDigits)), {"!"})
        p2 == Number(w, p1)
        p3 == SegmentStar(w, p2, escaped)
        pre == StepLit(w, p3, <<"a">>) \cup StepLit(w, p3, <<"b">>)
                  \cup StepLit(w, p3, <<"r", "c">>)
        p4 == p3 \cup Number(w, pre)
        p5 == p4 \cup Number(w, StepLit(w, p4, <<".", "p", "o", "s", "t">>))
        p6 == p5 \cup Number(w, StepLit(w, p5, <<".", "d", "e", "v">>))
    IN p6

\* Lines 13-20: pep440re.match(w) is not None.  Line 16 writes the separator
\* of the release segments as '.', unescaped.
pep440re(w) == \E p \in Pep440Ends(w, FALSE) : AtDollar(w, p)

\* Lines 22-26.
_is_canonical(w) == pep440re(w)

\* str.isdigit() of one character.
IsDigit(c) == c \in Digits

\* `not version`: None, the empty string and 0 are false.
Falsy(v) ==
    \/ v = None
    \/ v.kind = "str" /\ v.s = <<>>
    \/ v.kind = "int" /\ v.n = 0

\* Lines 140-164: the value returned or the exception raised, and the
\* warnings logged.
check_version(v) ==
    IF Falsy(v)
      THEN [out |-> [kind |-> "exception", type |-> "NoVersionError"], log |-> <<>>]
    ELSE IF v.kind # "str"
      THEN [out |-> [kind |-> "exception", type |-> "InvalidVersion"], log |-> <<>>]
    ELSE IF ~IsDigit(v.s[1])
      THEN [out |-> [kind |-> "exception", type |-> "InvalidVersion"], log |-> <<>>]
    ELSE LET canonical == _is_canonical(v.s)
         IN [out |-> [kind |-> "return", value |-> canonical],
             log |-> IF ~canonical THEN <<[level |-> "warning", arg |-> v.s]>>
                     ELSE <<>>]

RECURSIVE StringsUpTo(_, _)
StringsUpTo(alphabet, n) ==
    IF n = 0 THEN {<<>>}
    ELSE LET shorter == StringsUpTo(alphabet, n - 1)
         IN shorter \cup {Append(s, c) : s \in shorter, c \in alphabet}

\* The examples the documentation of the versions names, and longer strings
\* that use every piece of the pattern.
VersionExamples ==
    { <<"1", ".", "0", ".", "0">>,
      <<"1", ".", "0", "-", "b", "e", "t", "a">>,
      <<"a", "1", ".", "0">>,
      <<"1", ".", "0", "r", "c", "1">>,
      <<"1", ".", "0", "b", "2">>,
      <<"1", ".", "0", ".", "p", "o", "s", "t", "1">>,
      <<"1", ".", "0", ".", "d", "e", "v", "2">>,
      <<"1", "!", "2", ".", "0", "a", "1", ".", "p", "o", "s", "t", "2", ".", "d", "e", "v", "3">>,
      <<"1", ".", "0", "1">>,
      <<"1", ".", "0", ".", "d", "e", "v">> }

VersionInputs ==
    {None, IntValue(0), IntValue(42)}
        \cup {Str(s) : s \in StringsUpTo(VersionAlphabet, MaxVersionLen) \cup VersionExamples}

InitVersion ==
    /\ stage = "call"
    /\ version \in VersionInputs
    /\ outcome = None
    /\ fp = <<>>
    /\ warnings = <<>>

CheckVersion ==
    /\ stage = "call"
    /\ LET r == check_version(version)
       IN /\ outcome' = r.out
          /\ warnings' = warnings \o r.log
    /\ stage' = "done"
    /\ UNCHANGED <<version, fp, notVersion>>

\* The canonical public version form of PEP 440 (its appendix B): the pattern
\* of lines 13-20 with the release segments separated by dots.
Pep440Canonical(w) == \E p \in Pep440Ends(w, TRUE) : AtEnd(w, p)

\* C8: check_version classifies every input into exactly one outcome, in this
\* order: a missing or empty version raises NoVersionError; a present version
\* that is not a string raises InvalidVersion; a string that does not start
\* with a digit raises InvalidVersion; any other string raises nothing,
\* returning True without a warning when it is canonical and False after
\* exactly one warning when it is not.  (0, which Python's `not` also takes
\* for empty, is counted with the missing versions.)
C8_VersionClassified ==
    stage = "done" =>
        IF version = None \/ version = Str(<<>>) \/ version = IntValue(0)
          THEN outcome = [kind |-> "exception", type |-> "NoVersionError"]
               /\ warnings = <<>>
        ELSE IF version.kind # "str"
          THEN outcome = [kind |-> "exception", type |-> "InvalidVersion"]
               /\ warnings = <<>>
        ELSE IF version.s[1] \notin Digits
          THEN outcome = [kind |-> "exception", type |-> "InvalidVersion"]
               /\ warnings = <<>>
        ELSE IF Pep440Canonical(version.s)
          THEN outcome = [kind |-> "return", value |-> TRUE] /\ warnings = <<>>
        ELSE outcome = [kind |-> "return", value |-> FALSE] /\ Len(warnings) = 1

(***************************************************************************)
(* flit/common.py: class Metadata                                          *)
(*                                                                         *)
(* A dict is the sequence of its <<key, value>> items in insertion order.  *)
(* A value is None, Str(s) or List(items).                                 *)
(***************************************************************************)
\* How many keys besides the mandatory four the data may hold.
MaxExtraKeys == 2

List(items) == [kind |-> "list", items |-> items]

DictKeys(dict) == {dict[i][1] : i \in 1..Len(dict)}

DictGet(dict, k) == dict[CHOOSE i \in 1..Len(dict) : dict[i][1] = k][2]

\* dict.pop(k) leaves the other items in their order.
DictWithout(dict, k) == SelectSeq(dict, LAMBDA item : item[1] # k)

\* Lines 224-250: the attributes the class body declares, with their defaults.
ClassFields ==
    [ home_page |-> None, author |-> None, maintainer |-> None,
      maintainer_email |-> None, license |-> None, description |-> None,
      keywords |-> None, download_url |-> None, requires_python |-> None,
      platform |-> List(<<>>), supported_platform |-> List(<<>>),
      classifiers |-> List(<<>>), provides |-> List(<<>>), requires |-> List(<<>>),
      obsoletes |-> List(<<>>), project_urls |-> List(<<>>),
      provides_dist |-> List(<<>>), requires_dist |-> List(<<>>),
      obsoletes_dist |-> List(<<>>), requires_external |-> List(<<>>),
      metadata_version |-> Str("1.2"), dev_requires |-> List(<<>>) ]

\* Lines 252, 261, 264: the methods the class body defines.
ClassMethods == {"__init__", "_normalise_name", "write_metadata_file"}

\* Every attribute name the class gives its instances: the declared fields,
\* the methods, and what every class has (of which __doc__ and __module__).
ClassAttributes ==
    DOMAIN ClassFields \cup ClassMethods \cup {"__doc__", "__module__"}

\* The keys __init__ pops, in the order of lines 253-256.
MandatoryKeys == <<"name", "version", "author_email", "summary">>

\* hasattr(self, k), line 258: an instance attribute or one of the class.
HasAttr(inst, k) == k \in DOMAIN inst \/ k \in ClassAttributes

\* getattr(self, k) for a field: the instance's own value, else the default.
GetAttr(inst, k) == IF k \in DOMAIN inst THEN inst[k] ELSE ClassFields[k]

\* setattr(self, k, v)
SetAttr(inst, k, v) == [a \in DOMAIN inst \cup {k} |-> IF a = k THEN v ELSE inst[a]]

\* Lines 257-259: the loop over what is left of data.
RECURSIVE SetAttrs(_, _)
SetAttrs(inst, items) ==
    IF items = <<>> THEN [out |-> None, inst |-> inst]
    ELSE LET k == Head(items)[1]
             v == Head(items)[2]
         IN IF ~HasAttr(inst, k)
              THEN [out |-> [kind |-> "exception", type |-> "AssertionError",
                             detail |-> k],
                    inst |-> inst]
              ELSE SetAttrs(SetAttr(inst, k, v), Tail(items))

\* Lines 253-256: the four pops, each a KeyError when the key is missing.
RECURSIVE PopMandatory(_, _, _)
PopMandatory(inst, dict, keys) ==
    IF keys = <<>> THEN [out |-> None, inst |-> inst, rest |-> dict]
    ELSE LET k == Head(keys)
         IN IF k \notin DictKeys(dict)
              THEN [out |-> [kind |-> "exception", type |-> "KeyError", detail |-> k],
                    inst |-> inst, rest |-> dict]
              ELSE PopMandatory(SetAttr(inst, k, DictGet(dict, k)),
                                DictWithout(dict, k), Tail(keys))

\* Lines 252-259.
Metadata__init__(dict) ==
    LET popped == PopMandatory(<<>>, dict, MandatoryKeys)
    IN IF popped.out # None THEN [out |-> popped.out, inst |-> popped.inst]
       ELSE SetAttrs(popped.inst, popped.rest)

\* Lines 261-262, n.lower().replace('-', '_'), listed for the field names
\* of lines 266-281, the only arguments it is called with.
_normalise_name ==
    ("Metadata-Version" :> "metadata_version") @@ ("Name" :> "name")
      @@ ("Version" :> "version") @@ ("Summary" :> "summary")
      @@ ("Home-page" :> "home_page") @@ ("License" :> "license")
      @@ ("Keywords" :> "keywords") @@ ("Author" :> "author")
      @@ ("Author-email" :> "author_email") @@ ("Maintainer" :> "maintainer")
      @@ ("Maintainer-email" :> "maintainer_email")
      @@ ("Requires-Python" :> "requires_python")

\* Lines 266-273.
fields == <<"Metadata-Version", "Name", "Version", "Summary", "Home-page", "License">>

\* Lines 274-281.
optional_fields == <<"Keywords", "Author", "Author-email", "Maintainer",
                     "Maintainer-email", "Requires-Python">>

\* Python's truth value of a field's value.
ValueTruthy(v) ==
    /\ v # None
    /\ v.kind = "str" => v.s # ""
    /\ v.kind = "list" => v.items # <<>>

\* One line "<label>: <value>\n" of the file.
Line(label, v) == [label |-> label, value |-> v]

\* The empty line and the line of text of line 299.
BlankLine == [label |-> "", value |-> Str("")]

TextLine(v) == [label |-> "", value |-> v]

\* A variant of lines 284-285 that leaves out the line of an unset field.
MandatoryLines_OmitUnset(inst, f) ==
    IF ValueTruthy(GetAttr(inst, _normalise_name[f]))
      THEN <<Line(f, GetAttr(inst, _normalise_name[f]))>>
      ELSE <<>>

\* Lines 284-285: a mandatory field's line, UNKNOWN standing for a false value.
MandatoryLines(inst, f) ==
    LET value == GetAttr(inst, _normalise_name[f])
    IN <<Line(f, IF ValueTruthy(value) THEN value ELSE Str("UNKNOWN"))>>

\* Lines 288-290: an optional field's line, written unless the value is None.
OptionalLines(inst, f) ==
    LET value == GetAttr(inst, _normalise_name[f])
    IN IF value # None THEN <<Line(f, value)>> ELSE <<>>

RECURSIVE Concat(_)
Concat(seqs) == IF seqs = <<>> THEN <<>> ELSE Head(seqs) \o Concat(Tail(seqs))

\* Lines 264-299: the lines written, in order.
write_metadata_file(inst) ==
    LET classifiers == GetAttr(inst, "classifiers").items
        requires_dist == GetAttr(inst, "requires_dist").items
        description == GetAttr(inst, "description")
    IN Concat([i \in 1..Len(fields) |-> MandatoryLines(inst, fields[i])])
       \o Concat([i \in 1..Len(optional_fields) |-> OptionalLines(inst, optional_fields[i])])
       \o [i \in 1..Len(classifiers) |-> Line("Classifier", Str(classifiers[i]))]
       \o [i \in 1..Len(requires_dist) |-> Line("Requires-Dist", Str(requires_dist[i]))]
       \o (IF description # None
             THEN <<BlankLine, TextLine(description)>>
             ELSE <<>>)

\* The keys a descriptor may add to the mandatory four, each with a value of
\* its kind: declared fields, names of methods and of other attributes of
\* the class, and names the class does not know.
ExtraItems ==
    { <<"home_page", Str("https://example.org")>>, <<"license", Str("MIT")>>,
      <<"license", Str("")>>, <<"keywords", Str("build")>>,
      <<"author", Str("A")>>, <<"maintainer", Str("M")>>,
      <<"maintainer_email", Str("m@example.org")>>,
      <<"requires_python", Str(">=3")>>, <<"description", Str("long")>>,
      <<"classifiers", List(<<"c1", "c2">>)>>,
      <<"requires_dist", List(<<"requests">>)>>, <<"provides", List(<<"pkg">>)>>,
      <<"dev_requires", List(<<"pytest">>)>>,
      <<"write_metadata_file", Str("x")>>, <<"_normalise_name", Str("x")>>,
      <<"__doc__", Str("x")>>,
      <<"bogus", Str("x")>>, <<"home-page", Str("https://example.org")>> }

\* The mandatory part: all four set, the summary empty, or one key missing.
MandatoryItems ==
    LET full == << <<"name", Str("pkg")>>, <<"version", Str("1.0")>>,
                   <<"author_email", Str("a@example.org")>>,
                   <<"summary", Str("A package")>> >>
    IN {full}
         \cup {[full EXCEPT ![4] = <<"summary", Str("")>>]}
         \cup {DictWithout(full, MandatoryKeys[i]) : i \in 1..Len(MandatoryKeys)}

\* A dict has one item per key.
DistinctKeys(dict) == \A i, j \in 1..Len(dict) : dict[i][1] = dict[j][1] => i = j

\* The dicts of at most n items of S, in every insertion order.
RECURSIVE ItemSeqs(_, _)
ItemSeqs(S, n) ==
    IF n = 0 THEN {<<>>}
    ELSE LET shorter == ItemSeqs(S, n - 1)
         IN shorter \cup {q \in {Append(r, item) : r \in shorter, item \in S} :
                            DistinctKeys(q)}

InitMeta ==
    /\ stage = "call"
    /\ \E m \in MandatoryItems, x \in ItemSeqs(ExtraItems, MaxExtraKeys) :
          data = m \o x
    /\ md = None
    /\ outcome = None
    /\ fp = <<>>

\* md = Metadata(data)
Construct ==
    /\ stage = "call"
    /\ LET r == Metadata__init__(data)
       IN IF r.out = None
            THEN md' = r.inst /\ stage' = "constructed" /\ outcome' = outcome
            ELSE md' = md /\ stage' = "raised" /\ outcome' = r.out
    /\ UNCHANGED <<data, fp, notMeta>>

\* md.write_metadata_file(fp): a call of whatever the name is bound to.  An
\* instance attribute of that name (or of the name _normalise_name, called
\* at line 284) hides the method, and calling a str is a TypeError.
WriteMetadataFile ==
    /\ stage = "constructed"
    /\ IF "write_metadata_file" \in DOMAIN md \/ "_normalise_name" \in DOMAIN md
         THEN /\ outcome' = [kind |-> "exception", type |-> "TypeError",
                             detail |-> "not callable"]
              /\ fp' = fp
         ELSE /\ fp' = fp \o write_metadata_file(md)
              /\ outcome' = outcome
    /\ stage' = "written"
    /\ UNCHANGED <<data, md, notMeta>>

\* The data holds the four mandatory keys, all non-empty, and nothing else.
OnlyMandatory ==
    /\ DictKeys(data) = {"name", "version", "summary", "author_email"}
    /\ \A i \in 1..Len(data) : data[i][2].kind = "str" /\ data[i][2].s # ""

\* C6 as stated: for a Metadata built from only the mandatory fields, all
\* non-empty, write_metadata_file writes Metadata-Version, Name, Version,
\* Summary, Home-page: UNKNOWN, License: UNKNOWN, in this order, and nothing
\* else (no Author-email line among others).
C6_Original ==
    (stage = "written" /\ OnlyMandatory) =>
        fp = << Line("Metadata-Version", Str("1.2")),
                Line("Name", DictGet(data, "name")),
                Line("Version", DictGet(data, "version")),
                Line("Summary", DictGet(data, "summary")),
                Line("Home-page", Str("UNKNOWN")),
                Line("License", Str("UNKNOWN")) >>

\* C6 as amended: the six lines above are followed by the Author-email line
\* of the mandatory author_email, and by nothing else.
C6_MandatoryOnlyRecord ==
    (stage = "written" /\ OnlyMandatory) =>
        fp = << Line("Metadata-Version", Str("1.2")),
                Line("Name", DictGet(data, "name")),
                Line("Version", DictGet(data, "version")),
                Line("Summary", DictGet(data, "summary")),
                Line("Home-page", Str("UNKNOWN")),
                Line("License", Str("UNKNOWN")),
                Line("Author-email", DictGet(data, "author_email")) >>

C6_Witness ==
    /\ stage = "written"
    /\ OnlyMandatory
    /\ Len(fp) = 7
    /\ fp[5].value = Str("UNKNOWN")

\* The metadata field names the class declares with defaults.
RecognisedFields ==
    { "home_page", "author", "maintainer", "maintainer_email", "license",
      "description", "keywords", "download_url", "requires_python", "platform",
      "supported_platform", "classifiers", "provides", "requires", "obsoletes",
      "project_urls", "provides_dist", "requires_dist", "obsoletes_dist",
      "requires_external", "metadata_version", "dev_requires" }

\* C7: a mapping that holds, besides the four mandatory keys, a key that is
\* not a recognised field name makes the construction fail with an
\* AssertionError, also when the key names a method or another non-field
\* attribute; so no non-field attribute of the object is set from the data.
C7_UnknownKeyRejected ==
    /\ (stage # "call"
          /\ {"name", "version", "summary", "author_email"} \subseteq DictKeys(data)
          /\ ~(DictKeys(data) \subseteq
                   {"name", "version", "summary", "author_email"} \cup RecognisedFields)) =>
          /\ stage = "raised"
          /\ outcome.type = "AssertionError"
    /\ md # None =>
          DOMAIN md \subseteq {"name", "version", "summary", "author_email"}
                                  \cup RecognisedFields

(***************************************************************************)
(* flit/common.py: write_entry_points                                      *)
(*                                                                         *)
(* Group and entry names are strs (sequences of characters); sorted()      *)
(* orders them as Python orders strs, by code point.                       *)
(***************************************************************************)
\* How many groups the dict may hold, and how many entries a group.
MaxGroups == 2

MaxEntries == 2

\* ord(c) for the characters of the names below.
Ord ==
    (":" :> 58) @@ ("B" :> 66) @@ ("_" :> 95) @@ ("a" :> 97) @@ ("b" :> 98)
      @@ ("c" :> 99) @@ ("e" :> 101) @@ ("g" :> 103) @@ ("h" :> 104)
      @@ ("i" :> 105) @@ ("k" :> 107) @@ ("l" :> 108) @@ ("n" :> 110)
      @@ ("o" :> 111) @@ ("p" :> 112) @@ ("r" :> 114) @@ ("s" :> 115)
      @@ ("t" :> 116) @@ ("u" :> 117) @@ ("z" :> 122)

\* s < t on strs: the first differing character decides, a proper prefix is less.
RECURSIVE StrLess(_, _)
StrLess(s, t) ==
    IF t = <<>> THEN FALSE
    ELSE IF s = <<>> THEN TRUE
    ELSE IF Head(s) # Head(t) THEN Ord[Head(s)] < Ord[Head(t)]
    ELSE StrLess(Tail(s), Tail(t))

\* Insertion of x into an ascending list.
RECURSIVE InsertSorted(_, _)
InsertSorted(x, seq) ==
    IF seq = <<>> THEN <<x>>
    ELSE IF StrLess(Head(seq), x) THEN <<Head(seq)>> \o InsertSorted(x, Tail(seq))
    ELSE <<x>> \o seq

RECURSIVE SortStrs(_)
SortStrs(seq) ==
    IF seq = <<>> THEN <<>> ELSE InsertSorted(Head(seq), SortStrs(Tail(seq)))

\* The keys of a dict in insertion order: what iterating it yields.
KeyList(dict) == [i \in 1..Len(dict) |-> dict[i][1]]

\* A variant of lines 196 and 199 that iterates the dict as it is.
sorted_InsertionOrder(dict) == KeyList(dict)

\* sorted(d), lines 196 and 199: the keys in ascending order.
sorted_(dict) == SortStrs(KeyList(dict))

SectionLine(group_name) == [section |-> group_name]

EntryLine(name, val) == [name |-> name, val |-> val]

\* Lines 197-202: one group's section.
WriteGroup(group_name, group) ==
    LET names == sorted_(group)
    IN <<SectionLine(group_name)>>
       \o [i \in 1..Len(names) |-> EntryLine(names[i], DictGet(group, names[i]))]
       \o <<BlankLine>>

\* Lines 191-202: the lines written, in order.
write_entry_points(dict) ==
    LET group_names == sorted_(dict)
    IN Concat([i \in 1..Len(group_names) |->
                  WriteGroup(group_names[i], DictGet(dict, group_names[i]))])

EPGroupNames ==
    { <<"c", "o", "n", "s", "o", "l", "e", "_", "s", "c", "r", "i", "p", "t", "s">>,
      <<"g", "u", "i">>, <<"o", "t", "h", "e", "r">> }

EPNames == { <<"a">>, <<"b">>, <<"B", "z">> }

\* An entry's value, "<module>:<function>".
EPValue(group_name, name) == <<"p", "k", "g", ":">> \o name

\* The sequences of at most n distinct elements of S, in every order.
RECURSIVE DistinctSeqs(_, _)
DistinctSeqs(S, n) ==
    IF n = 0 THEN {<<>>}
    ELSE LET shorter == DistinctSeqs(S, n - 1)
         IN shorter \cup
              {Append(q, x) : <<q, x>> \in
                  {y \in shorter \X S : \A i \in 1..Len(y[1]) : y[1][i] # y[2]}}

\* A group of the given entry names, in the given insertion order.
GroupOf(group_name, names) ==
    [j \in 1..Len(names) |-> <<names[j], EPValue(group_name, names[j])>>]

\* The dict of the given groups with the given entry names, in the given
\* insertion orders.
DictOf(group_names, names) ==
    [i \in 1..Len(group_names) |-> <<group_names[i], GroupOf(group_names[i], names[i])>>]

\* d is any two-level dict of at most MaxGroups groups of at most MaxEntries
\* entries, in any insertion order of the groups and of the entries.
InitEp ==
    /\ stage = "call"
    /\ \E group_names \in DistinctSeqs(EPGroupNames, MaxGroups) :
          \E names \in [1..Len(group_names) -> DistinctSeqs(EPNames, MaxEntries)] :
              d = DictOf(group_names, names)
    /\ outcome = None
    /\ fp = <<>>

WriteEntryPoints ==
    /\ stage = "call"
    /\ fp' = fp \o write_entry_points(d)
    /\ stage' = "done"
    /\ UNCHANGED <<d, outcome, notEp>>

\* seq with the items at i and i + 1 exchanged.
SwapAt(seq, i) ==
    [k \in 1..Len(seq) |-> IF k = i THEN seq[i + 1] ELSE IF k = i + 1 THEN seq[i] ELSE seq[k]]

\* The dicts that differ from dict by one exchange of two neighbouring groups
\* or of two neighbouring entries of a group.  Every insertion order of the
\* same mapping is reached by a chain of such exchanges.
NeighbourOrders(dict) ==
    {SwapAt(dict, i) : i \in 1..(Len(dict) - 1)}
      \cup UNION { {[dict EXCEPT ![g] = <<dict[g][1], SwapAt(dict[g][2], i)>>] :
                       i \in 1..(Len(dict[g][2]) - 1)} : g \in 1..Len(dict) }

IsSection(line) == "section" \in DOMAIN line

IsEntry(line) == "name" \in DOMAIN line

\* The group whose section line i of the file belongs to.
SectionOf(lines, i) ==
    lines[CHOOSE h \in 1..i : /\ IsSection(lines[h])
                              /\ \A k \in (h + 1)..i : ~IsSection(lines[k])].section

\* C9: write_entry_points writes the same lines whatever the insertion order
\* of the groups and of the entries of a group: the sections come in
\* ascending order of group name, each a '[group]' line, then its
\* 'name=value' lines in ascending order of entry name, then one blank line.
C9_EntryPointsSorted ==
    stage = "done" =>
        /\ \A other \in NeighbourOrders(d) : write_entry_points(other) = fp
        /\ Len(fp) = Len(d) * 2 + Len(Concat([g \in 1..Len(d) |-> d[g][2]]))
        /\ fp # <<>> => IsSection(fp[1]) /\ fp[Len(fp)] = BlankLine
        /\ \A i \in 1..Len(fp) :
              /\ (i > 1 /\ IsSection(fp[i])) => fp[i - 1] = BlankLine
              /\ (i < Len(fp) /\ fp[i] = BlankLine) => IsSection(fp[i + 1])
              /\ IsSection(fp[i]) =>
                    /\ fp[i].section \in DictKeys(d)
                    /\ \A j \in (i + 1)..Len(fp) :
                          IsSection(fp[j]) => StrLess(fp[i].section, fp[j].section)
              /\ IsEntry(fp[i]) =>
                    /\ fp[i].name \in DictKeys(DictGet(d, SectionOf(fp, i)))
                    /\ fp[i].val = DictGet(DictGet(d, SectionOf(fp, i)), fp[i].name)
                    /\ IsEntry(fp[i + 1]) => StrLess(fp[i].name, fp[i + 1].name)

\* The example: console_scripts holding b then a, and other, in one of its
\* insertion orders that is not the order written.
C9_Witness ==
    /\ stage = "done"
    /\ Len(d) = 2
    /\ d[1][1] = <<"o", "t", "h", "e", "r">>
    /\ d[2][1] = <<"c", "o", "n", "s", "o", "l", "e", "_", "s", "c", "r", "i", "p", "t", "s">>
    /\ KeyList(d[2][2]) = << <<"b">>, <<"a">> >>
    /\ fp[1] = SectionLine(d[2][1])
    /\ fp[2] = EntryLine(<<"a">>, <<"p", "k", "g", ":", "a">>)
    /\ fp[3] = EntryLine(<<"b">>, <<"p", "k", "g", ":", "b">>)
    /\ fp[4] = BlankLine

(***************************************************************************)
(* flit/common.py: get_docstring_and_version_via_ast, get_info_from_module *)
(*                                                                         *)
(* The entry file is its parsed module: node.body, a sequence of statement *)
(* nodes.  Of a node the model keeps its class and the fields read here.   *)
(***************************************************************************)
\* How many top-level statements the entry file may hold.
MaxBody == 2

NameNode(id) == [type |-> "Name", id |-> id]

StrNode(str) == [type |-> "Str", s |-> str]

\* An assignment target: a plain name, or an attribute (a.b), a subscript
\* (a[0]) or a tuple (a, b), none of which has an id.
TargetNodes ==
    { NameNode("__version__"), NameNode("x"),
      [type |-> "Attribute"], [type |-> "Subscript"], [type |-> "Tuple"] }

\* The target lists of an assignment: one target, or two (a = b = value).
TargetLists ==
    {<<t>> : t \in TargetNodes}
      \cup { <<NameNode("__version__"), NameNode("x")>>,
             <<[type |-> "Attribute"], NameNode("__version__")>> }

ValueNodes == {StrNode("1.0"), StrNode("2.0"), [type |-> "Num"], [type |-> "Call"]}

\* The top-level statements: an expression statement holding a string (the
\* docstring when it comes first), an import, a function definition, an
\* annotated assignment (__version__: str = "1.0"), and the assignments.
Statements ==
    { [type |-> "Expr", value |-> StrNode("doc")], [type |-> "Import"],
      [type |-> "FunctionDef"], [type |-> "AnnAssign"] }
      \cup {[type |-> "Assign", targets |-> ts, value |-> v] :
               ts \in TargetLists, v \in ValueNodes}

RECURSIVE Bodies(_)
Bodies(n) ==
    IF n = 0 THEN {<<>>}
    ELSE LET shorter == Bodies(n - 1)
         IN shorter \cup {Append(b, st) : b \in shorter, st \in Statements}

\* Whether reading node.id succeeds: only ast.Name has the field.
HasId(node) == node.type = "Name"

\* Lines 92-95, with the short circuit of `and`: "True", "False", or the
\* AttributeError of targets[0].id on a target that has no id.
IsVersionStr(child) ==
    IF child.type # "Assign" THEN "False"
    ELSE IF Len(child.targets) # 1 THEN "False"
    ELSE IF ~HasId(child.targets[1]) THEN "AttributeError"
    ELSE IF child.targets[1].id # "__version__" THEN "False"
    ELSE IF child.value.type # "Str" THEN "False"
    ELSE "True"

\* Lines 89-100: the loop over node.body from statement i on.
RECURSIVE ScanVersion(_, _)
ScanVersion(stmts, i) ==
    IF i > Len(stmts) THEN [kind |-> "return", version |-> None]
    ELSE LET is_version_str == IsVersionStr(stmts[i])
         IN IF is_version_str = "AttributeError"
              THEN [kind |-> "exception", type |-> "AttributeError"]
            ELSE IF is_version_str = "True"
              THEN [kind |-> "return", version |-> Str(stmts[i].value.s)]
            ELSE ScanVersion(stmts, i + 1)

\* ast.get_docstring(node), line 101: the string of a leading expression
\* statement, else None.
GetDocstring(stmts) ==
    IF stmts # <<>> /\ stmts[1].type = "Expr" /\ stmts[1].value.type = "Str"
      THEN Str(stmts[1].value.s)
      ELSE None

\* Lines 82-101.
get_docstring_and_version_via_ast(stmts) ==
    LET scanned == ScanVersion(stmts, 1)
    IN IF scanned.kind = "exception" THEN scanned
       ELSE [kind |-> "return", docstring |-> GetDocstring(stmts),
             version |-> scanned.version]

\* Lines 126-128: the static pass, and whether the import is fallen back on.
get_info_from_module(stmts) ==
    LET static == get_docstring_and_version_via_ast(stmts)
    IN IF static.kind = "exception" THEN static
       ELSE [kind |-> "return", docstring |-> static.docstring,
             version |-> static.version,
             via_import |-> ~(ValueTruthy(static.docstring) /\ ValueTruthy(static.version))]

InitAst ==
    /\ stage = "call"
    /\ body \in Bodies(MaxBody)
    /\ outcome = None
    /\ fp = <<>>

GetInfoFromModule ==
    /\ stage = "call"
    /\ outcome' = get_info_from_module(body)
    /\ stage' = "done"
    /\ UNCHANGED <<body, fp, notAst>>

\* Whether a statement is a single-target assignment of a string literal to
\* the plain name __version__.
IsVersionAssignment(st) ==
    /\ st.type = "Assign"
    /\ Len(st.targets) = 1
    /\ st.targets[1] = NameNode("__version__")
    /\ st.value.type = "Str"

\* C10: for every syntactically valid entry file the static pass completes
\* without raising, and the version it returns is the string of the first
\* top-level statement that is a single-target assignment of a string
\* literal to the plain name __version__, or None when there is none; every
\* other statement is skipped, so that an incomplete static result leads to
\* the import fallback and not to an error.
C10_StaticPassNeverRaises ==
    stage = "done" =>
        /\ outcome.kind = "return"
        /\ LET hits == {i \in 1..Len(body) : IsVersionAssignment(body[i])}
           IN IF hits = {}
                THEN outcome.version = None /\ outcome.via_import
                ELSE outcome.version =
                        Str(body[CHOOSE i \in hits : \A j \in hits : i <= j].value.s)

(***************************************************************************)
(* Specifications: main, and one per helper.                               *)
(***************************************************************************)
vars == <<buildVars, commonVars, permVars, versionVars, metaVars, epVars, astVars>>

IdleBuild ==
    /\ pc = "idle"
    /\ ini_file = <<>>
    /\ formats = None
    /\ fmts = {}
    /\ sdist_info = None
    /\ wheel_info = None
    /\ archive = {}
    /\ tmpdir = <<>>
    /\ tmpdirs = {}
    /\ created = 0
    /\ unpacked = <<>>
    /\ calls = <<>>
    /\ exc = None
    /\ result = None

IdleCommon == stage = "main" /\ outcome = None /\ fp = <<>>

IdlePerm == st_mode = 0 /\ new_mode = 0

IdleVersion == version = None /\ warnings = <<>>

IdleMeta == data = <<>> /\ md = None

IdleEp == d = <<>>

IdleAst == body = <<>>

\* flit.build.main
Init == InitBuild /\ IdleCommon /\ IdlePerm /\ IdleVersion /\ IdleMeta /\ IdleEp /\ IdleAst

Next ==
    \/ Validate
    \/ SdistBuild
    \/ EnterTemporaryDirectory
    \/ ExtractAll
    \/ ListAndYield
    \/ MakeWheelIn
    \/ ExitTmp
    \/ WheelMain
    \/ Return

Spec == Init /\ [][Next]_vars

\* normalize_file_permissions
InitPermSpec == InitPerm /\ IdleBuild /\ IdleVersion /\ IdleMeta /\ IdleEp /\ IdleAst

NextPerm == NormalizePermissions

SpecPerm == InitPermSpec /\ [][NextPerm]_vars

\* check_version
InitVersionSpec == InitVersion /\ IdleBuild /\ IdlePerm /\ IdleMeta /\ IdleEp /\ IdleAst

NextVersion == CheckVersion

SpecVersion == InitVersionSpec /\ [][NextVersion]_vars

\* Metadata
InitMetaSpec == InitMeta /\ IdleBuild /\ IdlePerm /\ IdleVersion /\ IdleEp /\ IdleAst

NextMeta == Construct \/ WriteMetadataFile

SpecMeta == InitMetaSpec /\ [][NextMeta]_vars

\* write_entry_points
InitEpSpec == InitEp /\ IdleBuild /\ IdlePerm /\ IdleVersion /\ IdleMeta /\ IdleAst

NextEp == WriteEntryPoints

SpecEp == InitEpSpec /\ [][NextEp]_vars

\* get_docstring_and_version_via_ast
InitAstSpec == InitAst /\ IdleBuild /\ IdlePerm /\ IdleVersion /\ IdleMeta /\ IdleEp

NextAst == GetInfoFromModule

SpecAst == InitAstSpec /\ [][NextAst]_vars

=============================================================================
